---- MODULE Spec2Model ----
(***************************************************************************)
(* Model of tdapiclient: the refresh-token exchange (auth.authenticate /   *)
(* auth.get_access_token), the authenticated request helper (TDBase._call) *)
(* and the interactive authorization-code flow (auth.get_refresh_token     *)
(* with its callback handler AuthResponseHandler).                         *)
(*                                                                         *)
(* Python values are tagged records so that None, str and list values can  *)
(* be compared with each other.  A str is a sequence of one-character      *)
(* strings.  Time is the wall clock in seconds.                            *)
(***************************************************************************)
EXTENDS Integers, Sequences, FiniteSets, TLC

VARIABLES now, pc, call, ctx, ret, tokenPosts, lastTokenPost, apiCount,
          fpc, fargs, cert, certClock, httpd, browserUrl, context, handled,
          lastHandled, flowPost, fret

brokerVars == <<pc, call, ctx, ret, tokenPosts, lastTokenPost, apiCount>>

flowVars == <<fpc, fargs, cert, certClock, httpd, browserUrl, context,
              handled, lastHandled, flowPost, fret>>

vars == <<now, brokerVars, flowVars>>

-----------------------------------------------------------------------------
(* Bounds of the model *)

MaxTime == 2

MaxPosts == 2

MaxCalls == 2

\* requests the callback listener handles in one run
MaxRequests == 2

\* parameters in the query string of a callback request
MaxParams == 2

-----------------------------------------------------------------------------
(* Python values *)

None == [t |-> "None"]

PyStr(s) == [t |-> "str", s |-> s]

PyIntVal(n) == [t |-> "int", n |-> n]

PyList(xs) == [t |-> "list", xs |-> xs]

DigitValue == [d \in {"0", "1", "2", "3", "4", "5", "6", "7", "8", "9"} |->
                 CASE d = "0" -> 0 [] d = "1" -> 1 [] d = "2" -> 2
                   [] d = "3" -> 3 [] d = "4" -> 4 [] d = "5" -> 5
                   [] d = "6" -> 6 [] d = "7" -> 7 [] d = "8" -> 8
                   [] d = "9" -> 9]

RECURSIVE ParseDigits(_)
ParseDigits(s) ==
    IF s = <<>> THEN 0
    ELSE 10 * ParseDigits(SubSeq(s, 1, Len(s) - 1)) + DigitValue[s[Len(s)]]

\* int(v) for the values a token response carries in "expires_in"
PyInt(v) == IF v.t = "int" THEN v.n ELSE ParseDigits(v.s)

-----------------------------------------------------------------------------
(* Inputs *)

Callers == {"t1", "t2"}

\* client ids passed to authenticate and to get_refresh_token
ClientIds == {<<"K", "+">>}

RefreshTokens == {<<"R">>}

AccessTokens == {<<"A">>, <<"B">>}

ExpiresInValues == {PyIntVal(1), PyStr(<<"2">>)}

\* final status codes of a response: success, a 3xx without redirect target,
\* client error
Statuses == {200, 304, 401}

Methods == {"GET", "POST"}

Paths == {"/accounts"}

-----------------------------------------------------------------------------
(* HTTP helpers (requests) *)

\* Response.raise_for_status raises HTTPError for 4xx and 5xx
RaisesForStatus(status) == 400 <= status /\ status < 600

Suffix == <<"@", "A", "M", "E", "R", ".", "O", "A", "U", "T", "H", "A", "P">>

url_base == "https://api.tdameritrade.com/v1"

TokenUrl == <<url_base, "/oauth2/token">>

\* the form data get_access_token posts to the token endpoint
GetAccessTokenData(client_id, refresh_token) ==
    [grant_type |-> "refresh_token",
     refresh_token |-> refresh_token,
     client_id |-> client_id \o Suffix]

TDAuthContext(client_id, refresh_token, access_token, valid_until) ==
    [t |-> "TDAuthContext",
     client_id |-> client_id,
     refresh_token |-> refresh_token,
     access_token |-> access_token,
     access_token_valid_until |-> valid_until]

AuthHeaders(c) == [Authorization |-> <<"Bearer ", ctx[c].access_token>>]

NoCall == [t |-> "NoCall"]

NoRet == [t |-> "NoRet", op |-> "none"]

\* the parsed JSON body of a response
JsonData == [t |-> "json"]

Raised(c, op, status, exc) ==
    [t |-> "raised", caller |-> c, op |-> op, status |-> status, exc |-> exc]

\* what _call does with the response to request
CallOutcome(c, request, expect_response_body, status, json_ok) ==
    [t |-> IF RaisesForStatus(status) \/ (expect_response_body /\ ~json_ok)
             THEN "raised" ELSE "returned",
     caller |-> c,
     op |-> "_call",
     request |-> request,
     status |-> status,
     exc |-> IF RaisesForStatus(status) THEN "HTTPError"
             ELSE IF expect_response_body /\ ~json_ok THEN "JSONDecodeError"
             ELSE "none",
     data |-> IF ~RaisesForStatus(status) /\ expect_response_body /\ json_ok
                THEN JsonData ELSE None]

-----------------------------------------------------------------------------
(* Initial state: no caller holds an auth context, nothing was sent *)

BrokerInit ==
    /\ pc = [c \in Callers |-> "idle"]
    /\ call = [c \in Callers |-> NoCall]
    /\ ctx = [c \in Callers |-> None]
    /\ ret = NoRet
    /\ tokenPosts = 0
    /\ lastTokenPost = None
    /\ apiCount = 0

FlowInit ==
    /\ fpc = "idle"
    /\ fargs = None
    /\ cert = None
    /\ certClock = None
    /\ httpd = None
    /\ browserUrl = None
    /\ context = None
    /\ handled = 0
    /\ lastHandled = None
    /\ flowPost = None
    /\ fret = NoRet

Init ==
    /\ now = 0
    /\ BrokerInit
    /\ FlowInit

-----------------------------------------------------------------------------
(* The clock advances between any two steps, also while a POST is blocking *)

Tick ==
    /\ now < MaxTime
    /\ now' = now + 1
    /\ UNCHANGED <<brokerVars, flowVars>>

-----------------------------------------------------------------------------
(* authenticate(client_id, refresh_token), up to the blocking POST of      *)
(* get_access_token                                                        *)

\* variant: a caller waits while another caller's exchange is in flight
AuthenticateCall_Locked(c, client_id, refresh_token) ==
    /\ pc[c] = "idle"
    /\ \A d \in Callers : pc[d] # "post"
    /\ tokenPosts < MaxPosts
    /\ pc' = [pc EXCEPT ![c] = "post"]
    /\ call' = [call EXCEPT ![c] = [t |-> "authenticate",
                                    client_id |-> client_id,
                                    refresh_token |-> refresh_token,
                                    at |-> now]]
    /\ tokenPosts' = tokenPosts + 1
    /\ lastTokenPost' = [url |-> TokenUrl,
                         data |-> GetAccessTokenData(client_id, refresh_token)]
    /\ UNCHANGED <<now, ctx, ret, apiCount, flowVars>>

AuthenticateCall(c, client_id, refresh_token) ==
    /\ pc[c] = "idle"
    /\ tokenPosts < MaxPosts
    /\ pc' = [pc EXCEPT ![c] = "post"]
    /\ call' = [call EXCEPT ![c] = [t |-> "authenticate",
                                    client_id |-> client_id,
                                    refresh_token |-> refresh_token,
                                    at |-> now]]
    /\ tokenPosts' = tokenPosts + 1
    /\ lastTokenPost' = [url |-> TokenUrl,
                         data |-> GetAccessTokenData(client_id, refresh_token)]
    /\ UNCHANGED <<now, ctx, ret, apiCount, flowVars>>

(* The POST returns: raise_for_status, res.json(), then the context is     *)
(* built with the clock read at that moment                                *)

\* variant: the expiry is computed from the clock read before the POST
AuthenticateReturn_ClockBeforePost(c, status, json_ok, access_token, expires_in) ==
    /\ pc[c] = "post"
    /\ pc' = [pc EXCEPT ![c] = "idle"]
    /\ call' = [call EXCEPT ![c] = NoCall]
    /\ IF RaisesForStatus(status)
         THEN /\ ret' = Raised(c, "authenticate", status, "HTTPError")
              /\ UNCHANGED ctx
         ELSE IF ~json_ok
         THEN /\ ret' = Raised(c, "authenticate", status,
                                 "JSONDecodeError")
              /\ UNCHANGED ctx
         ELSE /\ ctx' = [ctx EXCEPT ![c] =
                            TDAuthContext(call[c].client_id,
                                          call[c].refresh_token,
                                          access_token,
                                          call[c].at + PyInt(expires_in))]
              /\ ret' = [t |-> "returned", caller |-> c,
                         op |-> "authenticate", status |-> status,
                         data |-> ctx'[c],
                         called_at |-> call[c].at,
                         returned_at |-> now,
                         expires_in |-> expires_in]
    /\ UNCHANGED <<now, tokenPosts, lastTokenPost, apiCount, flowVars>>

\* variant: expires_in is subtracted from the clock instead of added
AuthenticateReturn_ExpiryInPast(c, status, json_ok, access_token, expires_in) ==
    /\ pc[c] = "post"
    /\ pc' = [pc EXCEPT ![c] = "idle"]
    /\ call' = [call EXCEPT ![c] = NoCall]
    /\ IF RaisesForStatus(status)
         THEN /\ ret' = Raised(c, "authenticate", status, "HTTPError")
              /\ UNCHANGED ctx
         ELSE IF ~json_ok
         THEN /\ ret' = Raised(c, "authenticate", status,
                                 "JSONDecodeError")
              /\ UNCHANGED ctx
         ELSE /\ ctx' = [ctx EXCEPT ![c] =
                            TDAuthContext(call[c].client_id,
                                          call[c].refresh_token,
                                          access_token,
                                          now - PyInt(expires_in))]
              /\ ret' = [t |-> "returned", caller |-> c,
                         op |-> "authenticate", status |-> status,
                         data |-> ctx'[c],
                         called_at |-> call[c].at,
                         returned_at |-> now,
                         expires_in |-> expires_in]
    /\ UNCHANGED <<now, tokenPosts, lastTokenPost, apiCount, flowVars>>

AuthenticateReturn(c, status, json_ok, access_token, expires_in) ==
    /\ pc[c] = "post"
    /\ pc' = [pc EXCEPT ![c] = "idle"]
    /\ call' = [call EXCEPT ![c] = NoCall]
    /\ IF RaisesForStatus(status)
         THEN /\ ret' = Raised(c, "authenticate", status, "HTTPError")
              /\ UNCHANGED ctx
         ELSE IF ~json_ok
         THEN /\ ret' = Raised(c, "authenticate", status,
                                 "JSONDecodeError")
              /\ UNCHANGED ctx
         ELSE /\ ctx' = [ctx EXCEPT ![c] =
                            TDAuthContext(call[c].client_id,
                                          call[c].refresh_token,
                                          access_token,
                                          now + PyInt(expires_in))]
              /\ ret' = [t |-> "returned", caller |-> c,
                         op |-> "authenticate", status |-> status,
                         data |-> ctx'[c],
                         called_at |-> call[c].at,
                         returned_at |-> now,
                         expires_in |-> expires_in]
    /\ UNCHANGED <<now, tokenPosts, lastTokenPost, apiCount, flowVars>>

-----------------------------------------------------------------------------
(* TDBase._call (reached through _get, _post, _put, _delete)               *)

\* variant: an expired token is refreshed before the request is sent
ApiCall_RefreshExpired(c, method, path, expect_response_body, status, json_ok) ==
    /\ pc[c] = "idle"
    /\ ctx[c] # None
    /\ apiCount < MaxCalls
    /\ apiCount' = apiCount + 1
    /\ IF now > ctx[c].access_token_valid_until
         THEN /\ ctx' = [ctx EXCEPT ![c].access_token = <<"N">>,
                                    ![c].access_token_valid_until = now + 1]
              /\ tokenPosts' = tokenPosts + 1
              /\ lastTokenPost' =
                   [url |-> TokenUrl,
                    data |-> GetAccessTokenData(ctx[c].client_id,
                                                ctx[c].refresh_token)]
         ELSE UNCHANGED <<ctx, tokenPosts, lastTokenPost>>
    /\ ret' = CallOutcome(c,
                          [method |-> method,
                           url |-> <<url_base, path>>,
                           headers |-> [Authorization |->
                                          <<"Bearer ", ctx'[c].access_token>>],
                           at |-> now,
                           token_valid_until |-> ctx'[c].access_token_valid_until],
                          expect_response_body, status, json_ok)
    /\ UNCHANGED <<now, pc, call, flowVars>>

\* variant: a failed request is sent a second time
ApiCall_RetryOnError(c, method, path, expect_response_body, status, json_ok) ==
    /\ pc[c] = "idle"
    /\ ctx[c] # None
    /\ apiCount < MaxCalls
    /\ apiCount' = IF RaisesForStatus(status) THEN apiCount + 2
                   ELSE apiCount + 1
    /\ ret' = CallOutcome(c,
                          [method |-> method,
                           url |-> <<url_base, path>>,
                           headers |-> AuthHeaders(c),
                           at |-> now,
                           token_valid_until |-> ctx[c].access_token_valid_until],
                          expect_response_body, status, json_ok)
    /\ UNCHANGED <<now, pc, call, ctx, tokenPosts, lastTokenPost, flowVars>>

ApiCall(c, method, path, expect_response_body, status, json_ok) ==
    /\ pc[c] = "idle"
    /\ ctx[c] # None
    /\ apiCount < MaxCalls
    /\ apiCount' = apiCount + 1
    /\ ret' = CallOutcome(c,
                          [method |-> method,
                           url |-> <<url_base, path>>,
                           headers |-> AuthHeaders(c),
                           at |-> now,
                           token_valid_until |-> ctx[c].access_token_valid_until],
                          expect_response_body, status, json_ok)
    /\ UNCHANGED <<now, pc, call, ctx, tokenPosts, lastTokenPost, flowVars>>

-----------------------------------------------------------------------------

Next ==
    \/ Tick
    \/ \E c \in Callers, client_id \in ClientIds, refresh_token \in RefreshTokens :
          AuthenticateCall(c, client_id, refresh_token)
    \/ \E c \in Callers, status \in Statuses, json_ok \in BOOLEAN,
          access_token \in AccessTokens, expires_in \in ExpiresInValues :
          AuthenticateReturn(c, status, json_ok, access_token, expires_in)
    \/ \E c \in Callers, method \in Methods, path \in Paths,
          expect_response_body \in BOOLEAN, status \in Statuses,
          json_ok \in BOOLEAN :
          ApiCall(c, method, path, expect_response_body, status, json_ok)

Spec == Init /\ [][Next]_vars

-----------------------------------------------------------------------------
(* URL quoting (urllib.parse) on strings of one-character elements *)

\* characters quote() and quote_plus() escape, with their two hex digits
HexOf == [c \in {"@", ":", "+", " ", "/"} |->
            CASE c = "@" -> <<"4", "0">>
              [] c = ":" -> <<"3", "A">>
              [] c = "+" -> <<"2", "B">>
              [] c = " " -> <<"2", "0">>
              [] c = "/" -> <<"2", "F">>]

\* urllib.parse.quote(s): safe="/" and the unreserved characters are kept
RECURSIVE Quote(_)
Quote(s) ==
    IF s = <<>> THEN <<>>
    ELSE IF s[1] \in (DOMAIN HexOf) \ {"/"}
           THEN <<"%">> \o HexOf[s[1]] \o Quote(Tail(s))
           ELSE <<s[1]>> \o Quote(Tail(s))

\* urllib.parse.quote_plus(s), used by requests to form-encode a value
RECURSIVE QuotePlus(_)
QuotePlus(s) ==
    IF s = <<>> THEN <<>>
    ELSE IF s[1] = " " THEN <<"+">> \o QuotePlus(Tail(s))
    ELSE IF s[1] \in DOMAIN HexOf
           THEN <<"%">> \o HexOf[s[1]] \o QuotePlus(Tail(s))
           ELSE <<s[1]>> \o QuotePlus(Tail(s))

\* decoding of a query-string value as parse_qs does it: "+" is a space,
\* "%XX" is the character with that code
RECURSIVE UnquotePlus(_)
UnquotePlus(s) ==
    IF s = <<>> THEN <<>>
    ELSE IF s[1] = "+" THEN <<" ">> \o UnquotePlus(Tail(s))
    ELSE IF /\ s[1] = "%"
            /\ Len(s) >= 3
            /\ \E c \in DOMAIN HexOf : HexOf[c] = <<s[2], s[3]>>
           THEN <<CHOOSE c \in DOMAIN HexOf : HexOf[c] = <<s[2], s[3]>> >>
                  \o UnquotePlus(SubSeq(s, 4, Len(s)))
           ELSE <<s[1]>> \o UnquotePlus(Tail(s))

DigitChar == <<"0", "1", "2", "3", "4", "5", "6", "7", "8", "9">>

\* str(n) for a natural number, as an f-string formats it
RECURSIVE IntToStr(_)
IntToStr(n) ==
    IF n < 10 THEN <<DigitChar[n + 1]>>
    ELSE IntToStr(n \div 10) \o <<DigitChar[(n % 10) + 1]>>

\* str(v) for an Optional[str], as an f-string formats it
FormatValue(v) == IF v = None THEN <<"N", "o", "n", "e">> ELSE v.s

-----------------------------------------------------------------------------
(* Inputs of the interactive flow *)

Hosts == {<<"l", "o", "c", "a", "l", "h", "o", "s", "t">>}

Ports == {8123}

\* redirect_uri argument: None selects the default built from host and port
RedirectUris == {None, PyStr(<<"h", "t", "t", "p", "s", ":", "/", "/", "x", "/", "c", "b">>)}

CallbackMethods == {"GET", "POST"}

\* name=value pairs of a callback query string, values as sent (encoded)
Params ==
    {[k |-> "code", v |-> <<>>],
     [k |-> "code", v |-> <<"A", "%", "2", "B">>],
     [k |-> "error", v |-> <<>>],
     [k |-> "error", v |-> <<"d", "e", "n", "y">>],
     [k |-> "error_description", v |-> <<"U", "+", "c">>]}

RECURSIVE SeqsUpTo(_, _)
SeqsUpTo(S, n) ==
    IF n = 0 THEN {<<>>}
    ELSE LET shorter == SeqsUpTo(S, n - 1)
         IN  shorter \cup {Append(q, p) : q \in shorter, p \in S}

Queries == SeqsUpTo(Params, MaxParams)

\* request targets: "/" with any query string, and another path
CallbackRequests ==
    [method : CallbackMethods, path : {"/"}, query : Queries]
      \cup [method : CallbackMethods, path : {"/unknown"},
            query : {<<>>, <<[k |-> "code", v |-> <<"A", "%", "2", "B">>]>>}]

FiveMinutes == 300

-----------------------------------------------------------------------------
(* The callback handler *)

AuthResponseContext == [code |-> None, error |-> None, error_description |-> None]

RECURSIVE ValuesOf(_, _)
\* parse_qs(query_string)[key]: the decoded values of the pairs named key,
\* in order; pairs with a blank value are dropped (keep_blank_values=False)
ValuesOf(query, key) ==
    IF query = <<>> THEN <<>>
    ELSE IF query[1].k = key /\ query[1].v # <<>>
           THEN <<UnquotePlus(query[1].v)>> \o ValuesOf(Tail(query), key)
           ELSE ValuesOf(Tail(query), key)

\* key in parse_qs(query_string)
InQs(query, key) == ValuesOf(query, key) # <<>>

\* variant: the error description of an error callback is not recorded
DoGet_DropDescription(c, path, query) ==
    IF path # "/" \/ query = <<>>
      THEN [status |-> 404, context |-> c]
    ELSE IF InQs(query, "error")
      THEN [status |-> 200,
            context |-> [c EXCEPT !.error = PyStr(ValuesOf(query, "error")[1])]]
    ELSE IF ~InQs(query, "code") \/ Len(ValuesOf(query, "code")) # 1
      THEN [status |-> 400, context |-> c]
    ELSE [status |-> 200,
          context |-> [c EXCEPT !.code = PyList(ValuesOf(query, "code"))]]

\* variant: the request path is not checked
DoGet_AnyPath(c, path, query) ==
    IF query = <<>>
      THEN [status |-> 404, context |-> c]
    ELSE IF InQs(query, "error")
      THEN [status |-> 200,
            context |->
              [c EXCEPT !.error = PyStr(ValuesOf(query, "error")[1]),
                        !.error_description =
                           IF InQs(query, "error_description")
                             THEN PyStr(ValuesOf(query, "error_description")[1])
                             ELSE @]]
    ELSE IF ~InQs(query, "code") \/ Len(ValuesOf(query, "code")) # 1
      THEN [status |-> 400, context |-> c]
    ELSE [status |-> 200,
          context |-> [c EXCEPT !.code = PyList(ValuesOf(query, "code"))]]

\* variant: the code parameter is looked at before the error parameter
DoGet_CodeFirst(c, path, query) ==
    IF path # "/" \/ query = <<>>
      THEN [status |-> 404, context |-> c]
    ELSE IF InQs(query, "code") /\ Len(ValuesOf(query, "code")) = 1
      THEN [status |-> 200,
            context |-> [c EXCEPT !.code = PyList(ValuesOf(query, "code"))]]
    ELSE IF InQs(query, "error")
      THEN [status |-> 200,
            context |->
              [c EXCEPT !.error = PyStr(ValuesOf(query, "error")[1]),
                        !.error_description =
                           IF InQs(query, "error_description")
                             THEN PyStr(ValuesOf(query, "error_description")[1])
                             ELSE @]]
    ELSE [status |-> 400, context |-> c]

\* AuthResponseHandler.do_GET (do_POST delegates to it): the response status
\* and the context after the request
DoGet(c, path, query) ==
    IF path # "/" \/ query = <<>>
      THEN [status |-> 404, context |-> c]
    ELSE IF InQs(query, "error")
      THEN [status |-> 200,
            context |->
              [c EXCEPT !.error = PyStr(ValuesOf(query, "error")[1]),
                        !.error_description =
                           IF InQs(query, "error_description")
                             THEN PyStr(ValuesOf(query, "error_description")[1])
                             ELSE @]]
    ELSE IF ~InQs(query, "code") \/ Len(ValuesOf(query, "code")) # 1
      THEN [status |-> 400, context |-> c]
    ELSE [status |-> 200,
          context |-> [c EXCEPT !.code = PyList(ValuesOf(query, "code"))]]

-----------------------------------------------------------------------------
(* get_refresh_token *)

DefaultRedirectUri(host, port) ==
    <<"h", "t", "t", "p", "s", ":", "/", "/">> \o host \o <<":">> \o IntToStr(port)

\* lines 140-159: redirect_uri default, partner suffix, RSA key and key file
FlowStart(client_id, redirect_uri, host, port) ==
    /\ fpc = "idle"
    /\ fpc' = "cert_not_before"
    /\ fargs' = [caller_client_id |-> client_id,
                 client_id |-> client_id \o Suffix,
                 redirect_uri |-> IF redirect_uri = None
                                    THEN DefaultRedirectUri(host, port)
                                    ELSE redirect_uri.s,
                 server_listen_host |-> host,
                 server_listen_port |-> port]
    /\ UNCHANGED <<now, brokerVars, cert, certClock, httpd, browserUrl,
                   context, handled, lastHandled, flowPost, fret>>

\* line 175: the first clock read of the certificate builder
CertNotBefore ==
    /\ fpc = "cert_not_before"
    /\ fpc' = "cert_not_after"
    /\ certClock' = [not_before_read_at |-> now]
    /\ UNCHANGED <<now, brokerVars, fargs, cert, httpd, browserUrl, context,
                   handled, lastHandled, flowPost, fret>>

\* variant: both ends of the validity window come from the first clock read
CertNotAfter_SingleClockRead ==
    /\ fpc = "cert_not_after"
    /\ fpc' = "server"
    /\ certClock' = [not_before_read_at |-> certClock.not_before_read_at,
                     not_after_read_at |-> now]
    /\ cert' = [subject_cn |-> fargs.server_listen_host \o <<":">>
                                 \o IntToStr(fargs.server_listen_port),
                issuer_cn |-> fargs.server_listen_host \o <<":">>
                                \o IntToStr(fargs.server_listen_port),
                not_valid_before |-> certClock.not_before_read_at,
                not_valid_after |-> certClock.not_before_read_at + FiveMinutes]
    /\ UNCHANGED <<now, brokerVars, fargs, httpd, browserUrl, context,
                   handled, lastHandled, flowPost, fret>>

\* lines 162-185: the second clock read, signing, certificate file
CertNotAfter ==
    /\ fpc = "cert_not_after"
    /\ fpc' = "server"
    /\ certClock' = [not_before_read_at |-> certClock.not_before_read_at,
                     not_after_read_at |-> now]
    /\ cert' = [subject_cn |-> fargs.server_listen_host \o <<":">>
                                 \o IntToStr(fargs.server_listen_port),
                issuer_cn |-> fargs.server_listen_host \o <<":">>
                                \o IntToStr(fargs.server_listen_port),
                not_valid_before |-> certClock.not_before_read_at,
                not_valid_after |-> now + FiveMinutes]
    /\ UNCHANGED <<now, brokerVars, fargs, httpd, browserUrl, context,
                   handled, lastHandled, flowPost, fret>>

\* lines 161-185: building, signing or writing the certificate fails
CertFails ==
    /\ fpc \in {"cert_not_before", "cert_not_after"}
    /\ fpc' = "raised"
    /\ fret' = [t |-> "raised", exc |-> "OSError"]
    /\ UNCHANGED <<now, brokerVars, fargs, cert, certClock, httpd, browserUrl,
                   context, handled, lastHandled, flowPost>>

\* lines 188-191: callback context and HTTPServer bound to host:port
BindServer(ok) ==
    /\ fpc = "server"
    /\ context' = AuthResponseContext
    /\ IF ok
         THEN /\ fpc' = "tls"
              /\ httpd' = [address |-> <<fargs.server_listen_host,
                                         fargs.server_listen_port>>,
                           tls |-> FALSE]
              /\ UNCHANGED fret
         ELSE /\ fpc' = "raised"
              /\ fret' = [t |-> "raised", exc |-> "OSError"]
              /\ UNCHANGED httpd
    /\ UNCHANGED <<now, brokerVars, fargs, cert, certClock, browserUrl,
                   handled, lastHandled, flowPost>>

\* lines 192-195: load_cert_chain and wrap_socket
WrapSocket(ok) ==
    /\ fpc = "tls"
    /\ IF ok
         THEN /\ fpc' = "browser"
              /\ httpd' = [httpd EXCEPT !.tls = TRUE]
              /\ UNCHANGED fret
         ELSE /\ fpc' = "raised"
              /\ fret' = [t |-> "raised", exc |-> "SSLError"]
              /\ UNCHANGED httpd
    /\ UNCHANGED <<now, brokerVars, fargs, cert, certClock, browserUrl,
                   context, handled, lastHandled, flowPost>>

\* variant: the client id is put into the URL without quoting
AuthorizationUrl_Unquoted(redirect_uri, client_id) ==
    [base |-> "https://auth.tdameritrade.com/auth",
     response_type |-> "code",
     redirect_uri |-> Quote(redirect_uri),
     client_id |-> client_id]

\* the authorization URL of lines 199-202
AuthorizationUrl(redirect_uri, client_id) ==
    [base |-> "https://auth.tdameritrade.com/auth",
     response_type |-> "code",
     redirect_uri |-> Quote(redirect_uri),
     client_id |-> Quote(client_id)]

\* variant: the browser is opened before the listener socket is wrapped
OpenBrowser_BeforeTls ==
    /\ fpc \in {"tls", "browser"}
    /\ fpc' = IF fpc = "browser" THEN "waiting" ELSE "tls"
    /\ browserUrl' = AuthorizationUrl(fargs.redirect_uri, fargs.client_id)
    /\ UNCHANGED <<now, brokerVars, fargs, cert, certClock, httpd, context,
                   handled, lastHandled, flowPost, fret>>

\* lines 199-206: webbrowser.open(url)
OpenBrowser ==
    /\ fpc = "browser"
    /\ fpc' = "waiting"
    /\ browserUrl' = AuthorizationUrl(fargs.redirect_uri, fargs.client_id)
    /\ UNCHANGED <<now, brokerVars, fargs, cert, certClock, httpd, context,
                   handled, lastHandled, flowPost, fret>>

\* variant: the wait loop gives up after MaxRequests rejected requests
HandleRequest_GivesUp(req) ==
    /\ fpc = "waiting"
    /\ LET res == DoGet(context, req.path, req.query)
           rejected == res.context.code = None /\ res.context.error = None
       IN  /\ context' = res.context
           /\ lastHandled' = [request |-> req, status |-> res.status]
           /\ fpc' = IF ~rejected THEN "after_loop"
                     ELSE IF handled + 1 >= MaxRequests THEN "raised"
                     ELSE "waiting"
           /\ fret' = IF rejected /\ handled + 1 >= MaxRequests
                        THEN [t |-> "raised", exc |-> "TimeoutError"]
                        ELSE fret
    /\ handled' = IF handled < MaxRequests THEN handled + 1 ELSE handled
    /\ UNCHANGED <<now, brokerVars, fargs, cert, certClock, httpd, browserUrl,
                   flowPost>>

\* variant: the listener serves one more request after a result was recorded
HandleRequest_KeepsServing(req) ==
    /\ fpc \in {"waiting", "after_loop"}
    /\ LET res == DoGet(context, req.path, req.query)
       IN  /\ context' = res.context
           /\ lastHandled' = [request |-> req, status |-> res.status]
           /\ fpc' = IF res.context.code = None /\ res.context.error = None
                       THEN "waiting"
                       ELSE "after_loop"
    /\ handled' = IF handled < MaxRequests THEN handled + 1 ELSE handled
    /\ UNCHANGED <<now, brokerVars, fargs, cert, certClock, httpd, browserUrl,
                   flowPost, fret>>

\* lines 208-210: one httpd.handle_request() and the loop test after it;
\* the loop has no counter of its own, handled counts up to MaxRequests
HandleRequest(req) ==
    /\ fpc = "waiting"
    /\ LET res == DoGet(context, req.path, req.query)
       IN  /\ context' = res.context
           /\ lastHandled' = [request |-> req, status |-> res.status]
           /\ fpc' = IF res.context.code = None /\ res.context.error = None
                       THEN "waiting"
                       ELSE "after_loop"
    /\ handled' = IF handled < MaxRequests THEN handled + 1 ELSE handled
    /\ UNCHANGED <<now, brokerVars, fargs, cert, certClock, httpd, browserUrl,
                   flowPost, fret>>

\* the form data of the authorization-code exchange, lines 224-231
ExchangeData ==
    [grant_type |-> "authorization_code",
     refresh_token |-> PyStr(<<>>),
     access_type |-> "offline",
     code |-> context.code,
     client_id |-> PyStr(fargs.client_id),
     redirect_uri |-> PyStr(fargs.redirect_uri)]

\* the values requests sends for one form field: every item of a list, the
\* value itself otherwise, each form-encoded
FormField(v) ==
    IF v.t = "list" THEN [i \in 1..Len(v.xs) |-> QuotePlus(v.xs[i])]
    ELSE <<QuotePlus(v.s)>>

\* lines 212-233: the error check after the loop, then the POST
AfterLoop ==
    /\ fpc = "after_loop"
    /\ IF context.error # None
         THEN /\ fpc' = "raised"
              /\ fret' = [t |-> "raised",
                          exc |-> "TDAPIClientAuthenticationException",
                          message |-> <<"Error during authentication. error=",
                                        FormatValue(context.error),
                                        ", error_description=",
                                        FormatValue(context.error_description)>>]
              /\ UNCHANGED flowPost
         ELSE /\ fpc' = "exchanging"
              /\ flowPost' = [url |-> TokenUrl,
                              data |-> ExchangeData,
                              body |-> [code |-> FormField(ExchangeData.code),
                                        client_id |->
                                          FormField(ExchangeData.client_id),
                                        redirect_uri |->
                                          FormField(ExchangeData.redirect_uri)]]
              /\ UNCHANGED fret
    /\ UNCHANGED <<now, brokerVars, fargs, cert, certClock, httpd, browserUrl,
                   context, handled, lastHandled>>

\* lines 233-235: the POST returns, raise_for_status, res.json()
ExchangeReturn(status, json_ok) ==
    /\ fpc = "exchanging"
    /\ IF RaisesForStatus(status)
         THEN /\ fpc' = "raised"
              /\ fret' = [t |-> "raised", exc |-> "HTTPError", status |-> status]
         ELSE IF ~json_ok
         THEN /\ fpc' = "raised"
              /\ fret' = [t |-> "raised", exc |-> "JSONDecodeError",
                          status |-> status]
         ELSE /\ fpc' = "done"
              /\ fret' = [t |-> "returned", data |-> JsonData, status |-> status]
    /\ UNCHANGED <<now, brokerVars, fargs, cert, certClock, httpd, browserUrl,
                   context, handled, lastHandled, flowPost>>

FlowNext ==
    \/ Tick
    \/ \E client_id \in ClientIds, redirect_uri \in RedirectUris,
          host \in Hosts, port \in Ports :
          FlowStart(client_id, redirect_uri, host, port)
    \/ CertNotBefore
    \/ CertNotAfter
    \/ CertFails
    \/ \E ok \in BOOLEAN : BindServer(ok)
    \/ \E ok \in BOOLEAN : WrapSocket(ok)
    \/ OpenBrowser
    \/ \E req \in CallbackRequests : HandleRequest(req)
    \/ AfterLoop
    \/ \E status \in Statuses, json_ok \in BOOLEAN :
          ExchangeReturn(status, json_ok)

FlowSpec == Init /\ [][FlowNext]_vars

\* requests the handler accepts: on "/", with a non-empty error or exactly
\* one non-empty code among their parameters
ValidCallbacks ==
    {req \in CallbackRequests :
        DoGet(AuthResponseContext, req.path, req.query).status = 200}

\* the requests with at most one query parameter
ShortRequests == {req \in CallbackRequests : Len(req.query) <= 1}

\* the flow with the listener receiving short requests only
FlowLiveNext ==
    \/ Tick
    \/ \E client_id \in ClientIds, redirect_uri \in RedirectUris,
          host \in Hosts, port \in Ports :
          FlowStart(client_id, redirect_uri, host, port)
    \/ CertNotBefore
    \/ CertNotAfter
    \/ CertFails
    \/ \E ok \in BOOLEAN : BindServer(ok)
    \/ \E ok \in BOOLEAN : WrapSocket(ok)
    \/ OpenBrowser
    \/ \E req \in ShortRequests : HandleRequest(req)
    \/ AfterLoop
    \/ \E status \in Statuses, json_ok \in BOOLEAN :
          ExchangeReturn(status, json_ok)

\* the redirect the provider sends after a successful login
CodeCallback ==
    [method |-> "GET", path |-> "/",
     query |-> <<[k |-> "code", v |-> <<"A", "%", "2", "B">>]>>]

\* the flow in an environment where the browser eventually delivers that
\* redirect: handle_request blocks in accept until a request arrives and
\* then serves it
FlowLiveSpec ==
    /\ Init
    /\ [][FlowLiveNext]_vars
    /\ WF_vars(HandleRequest(CodeCallback))

-----------------------------------------------------------------------------
(* Properties of the token exchange and of the request helper *)

ApiStep == apiCount' # apiCount

AuthReturnStep(c) == pc[c] = "post" /\ pc'[c] = "idle"

Is2xx(status) == 200 <= status /\ status < 300

\* C1: every outgoing API request carries a bearer token that is valid when
\* the request is issued (the clock is not later than the context's
\* access_token_valid_until).
C1_RequestCarriesValidToken ==
    ret.op = "_call" => ret.request.at <= ret.request.token_valid_until

\* C2: once a context holds an access token, every API call, at any clock
\* value, sends exactly that cached token, sends nothing to the token
\* endpoint and leaves the context unchanged.
C2_FetchOnce ==
    [][ApiStep =>
         /\ ctx' = ctx
         /\ tokenPosts' = tokenPosts
         /\ lastTokenPost' = lastTokenPost
         /\ ret'.request.headers.Authorization =
              <<"Bearer ", ctx[ret'.caller].access_token>>]_vars

\* two API calls, the last one issued after the cached token expired, with
\* a single POST to the token endpoint in the whole run
C2_Witness ==
    /\ apiCount = 2
    /\ tokenPosts = 1
    /\ ret.op = "_call"
    /\ ret.request.at > ret.request.token_valid_until
    /\ ret.request.headers.Authorization
         = <<"Bearer ", ctx[ret.caller].access_token>>

\* C3 (as claimed): a non-2xx response of the token endpoint makes the
\* exchange fail with TDAPIClientAuthenticationException and leaves every
\* context as it was.
C3_NonSuccessRaisesAuthenticationError ==
    [][\A c \in Callers :
         (AuthReturnStep(c) /\ ~Is2xx(ret'.status)) =>
            /\ ret'.t = "raised"
            /\ ret'.exc = "TDAPIClientAuthenticationException"
            /\ ctx' = ctx]_vars

AuthenticateSucceeded == ret.op = "authenticate" /\ ret.t = "returned"

\* C7 (as claimed): the stored expiry is the time of the call plus
\* expires_in, however long the POST takes.
C7_ExpiryFromCallTime ==
    AuthenticateSucceeded =>
       ret.data.access_token_valid_until = ret.called_at + PyInt(ret.expires_in)

\* C7 (amended): the stored expiry is the clock read after the POST has
\* returned plus expires_in seconds, so it lies later than call time plus
\* expires_in by the duration of the POST.
C7_ExpiryFromReturnTime ==
    AuthenticateSucceeded =>
       /\ ret.data = ctx[ret.caller]
       /\ ret.data.access_token_valid_until
            = ret.returned_at + PyInt(ret.expires_in)
       /\ ret.data.access_token_valid_until
            - (ret.called_at + PyInt(ret.expires_in))
            = ret.returned_at - ret.called_at

\* a successful exchange whose POST took time, with a string expires_in
C7_Witness ==
    /\ AuthenticateSucceeded
    /\ ret.returned_at > ret.called_at
    /\ ret.expires_in = PyStr(<<"2">>)
    /\ ctx[ret.caller].access_token_valid_until = ret.returned_at + 2

\* C8 (as claimed): every _call issues one request and a non-2xx response
\* makes it raise, without data, retry, refresh or change of the context.
C8_NonSuccessRaises ==
    [][ApiStep =>
         /\ apiCount' = apiCount + 1
         /\ tokenPosts' = tokenPosts
         /\ ctx' = ctx
         /\ (~Is2xx(ret'.status) => ret'.t = "raised" /\ ret'.data = None)]_vars

\* C8 (amended): every _call issues exactly one request; a 4xx or 5xx
\* response makes it raise HTTPError without data; nothing is retried, no
\* token refresh is triggered and the context is unchanged.  A 3xx response
\* does not raise by its status.
C8_ErrorStatusRaises ==
    [][ApiStep =>
         /\ apiCount' = apiCount + 1
         /\ tokenPosts' = tokenPosts
         /\ lastTokenPost' = lastTokenPost
         /\ ctx' = ctx
         /\ ret'.op = "_call"
         /\ (ret'.status >= 400 =>
               /\ ret'.t = "raised"
               /\ ret'.exc = "HTTPError"
               /\ ret'.data = None)]_vars

\* an API call answered 401 that raised HTTPError
C8_Witness ==
    /\ apiCount >= 1
    /\ ret.op = "_call"
    /\ ret.t = "raised"
    /\ ret.status = 401
    /\ ret.exc = "HTTPError"

-----------------------------------------------------------------------------
(* Properties of the interactive flow *)

\* the values, as sent, of the query parameters named key, blank ones included
RECURSIVE RawValuesOf(_, _)
RawValuesOf(query, key) ==
    IF query = <<>> THEN <<>>
    ELSE IF query[1].k = key
           THEN <<query[1].v>> \o RawValuesOf(Tail(query), key)
           ELSE RawValuesOf(Tail(query), key)

\* the values, as sent, of the query parameters named key that are not empty
RECURSIVE SentValuesOf(_, _)
SentValuesOf(query, key) ==
    IF query = <<>> THEN <<>>
    ELSE IF query[1].k = key /\ Len(query[1].v) > 0
           THEN <<query[1].v>> \o SentValuesOf(Tail(query), key)
           ELSE SentValuesOf(Tail(query), key)

LastRequest == lastHandled.request

LoopTerminated == fpc \in {"after_loop", "exchanging", "raised", "done"}

\* C4 (as claimed): a callback on "/" with exactly one code parameter of
\* value v and no error parameter ends the wait loop with code equal to the
\* string v and error unset, and v is the code sent in the token exchange.
C4_CodeIsTheValue ==
    (/\ lastHandled # None
     /\ LastRequest.path = "/"
     /\ Len(RawValuesOf(LastRequest.query, "code")) = 1
     /\ RawValuesOf(LastRequest.query, "code")[1] # <<>>
     /\ RawValuesOf(LastRequest.query, "error") = <<>>)
    => LET v == UnquotePlus(RawValuesOf(LastRequest.query, "code")[1])
       IN  /\ LoopTerminated
           /\ context.code = PyStr(v)
           /\ context.error = None
           /\ flowPost # None => flowPost.body.code = <<QuotePlus(v)>>

\* C5 (as claimed): a callback on "/" carrying error=e, optionally with
\* error_description=d, ends the wait loop with error = e and
\* error_description = d (unset when absent), and the flow raises the
\* authentication exception with e and d in its message.
C5_ErrorCallbackRaises ==
    (/\ lastHandled # None
     /\ LastRequest.path = "/"
     /\ RawValuesOf(LastRequest.query, "error") # <<>>)
    => LET e == UnquotePlus(RawValuesOf(LastRequest.query, "error")[1])
           ds == RawValuesOf(LastRequest.query, "error_description")
       IN  /\ LoopTerminated
           /\ context.error = PyStr(e)
           /\ context.error_description =
                IF ds = <<>> THEN None ELSE PyStr(UnquotePlus(ds[1]))
           /\ fpc # "after_loop" =>
                /\ fret.t = "raised"
                /\ fret.exc = "TDAPIClientAuthenticationException"
                /\ fret.message[2] = e
                /\ ds # <<>> => fret.message[4] = UnquotePlus(ds[1])

\* C5 (amended): a callback on "/" carrying an error parameter with a
\* non-empty value e, optionally with a non-empty error_description d, ends
\* the wait loop with error = e decoded and error_description = d decoded
\* (unset when absent or empty), code unset, and the flow raises the
\* authentication exception with both in its message; the first non-empty
\* value of a repeated parameter counts.
C5_NonEmptyErrorCallbackRaises ==
    (/\ lastHandled # None
     /\ LastRequest.path = "/"
     /\ SentValuesOf(LastRequest.query, "error") # <<>>)
    => LET e == UnquotePlus(SentValuesOf(LastRequest.query, "error")[1])
           ds == SentValuesOf(LastRequest.query, "error_description")
       IN  /\ LoopTerminated
           /\ lastHandled.status = 200
           /\ context.error = PyStr(e)
           /\ context.code = None
           /\ context.error_description =
                IF ds = <<>> THEN None ELSE PyStr(UnquotePlus(ds[1]))
           /\ flowPost = None
           /\ fpc # "after_loop" =>
                /\ fpc = "raised"
                /\ fret.t = "raised"
                /\ fret.exc = "TDAPIClientAuthenticationException"
                /\ fret.message[2] = e
                /\ fret.message[4] =
                     (IF ds = <<>> THEN <<"N", "o", "n", "e">>
                      ELSE UnquotePlus(ds[1]))

\* the flow raised for error=deny&error_description=U+c
C5_Witness ==
    /\ fpc = "raised"
    /\ lastHandled # None
    /\ LastRequest.query = <<[k |-> "error", v |-> <<"d", "e", "n", "y">>],
                             [k |-> "error_description", v |-> <<"U", "+", "c">>]>>
    /\ context.error = PyStr(<<"d", "e", "n", "y">>)
    /\ context.error_description = PyStr(<<"U", " ", "c">>)
    /\ fret.exc = "TDAPIClientAuthenticationException"
    /\ fret.message[4] = <<"U", " ", "c">>

\* malformed as the claim words it: every parameter sent counts
RawMalformed(req) ==
    \/ req.path # "/"
    \/ req.query = <<>>
    \/ /\ RawValuesOf(req.query, "error") = <<>>
       /\ Len(RawValuesOf(req.query, "code")) # 1

\* malformed when parameters with an empty value count as absent
Malformed(req) ==
    \/ req.path # "/"
    \/ req.query = <<>>
    \/ /\ SentValuesOf(req.query, "error") = <<>>
       /\ Len(SentValuesOf(req.query, "code")) # 1

\* C6 (as claimed): a malformed callback request (other path, no query
\* string, or neither an error nor exactly one code parameter) is answered
\* 400 or 404, leaves the callback result unset and the loop waiting; any
\* other request ends the loop with its code or error recorded.
C6_MalformedIgnored ==
    lastHandled # None =>
       IF RawMalformed(LastRequest)
         THEN /\ lastHandled.status \in {400, 404}
              /\ context = AuthResponseContext
              /\ fpc = "waiting"
         ELSE /\ LoopTerminated
              /\ context.code # None \/ context.error # None

\* C6 (amended): the same, with parameters of empty value counted as
\* absent: a request is malformed when its path is not "/", it has no
\* query string, or its non-empty parameters hold neither an error nor
\* exactly one code.
C6_MalformedIgnoredNonEmpty ==
    lastHandled # None =>
       IF Malformed(LastRequest)
         THEN /\ lastHandled.status \in {400, 404}
              /\ context = AuthResponseContext
              /\ fpc = "waiting"
         ELSE /\ lastHandled.status = 200
              /\ LoopTerminated
              /\ context.code # None \/ context.error # None

\* a malformed request was ignored and the next, a valid one, ended the loop
C6_Witness ==
    /\ handled = 2
    /\ lastHandled # None
    /\ ~Malformed(LastRequest)
    /\ fpc = "after_loop"
    /\ context.code # None

\* C9: the client_id in the authorization URL and the client_id of the
\* authorization-code exchange are the caller's client_id with the partner
\* suffix appended once, and the refresh-token exchange sends the same for
\* the same caller client_id.
C9_SameClientId ==
    /\ browserUrl # None =>
         UnquotePlus(browserUrl.client_id) = fargs.caller_client_id \o Suffix
    /\ flowPost # None =>
         /\ flowPost.data.client_id.s = fargs.caller_client_id \o Suffix
         /\ Len(flowPost.body.client_id) = 1
         /\ UnquotePlus(flowPost.body.client_id[1])
              = UnquotePlus(browserUrl.client_id)
         /\ \A refresh_token \in RefreshTokens :
              GetAccessTokenData(fargs.caller_client_id, refresh_token).client_id
                = flowPost.data.client_id.s

\* the exchange was sent for a client id that needs quoting
C9_Witness ==
    /\ flowPost # None
    /\ browserUrl # None
    /\ fargs.caller_client_id = <<"K", "+">>
    /\ flowPost.data.client_id.s = <<"K", "+">> \o Suffix

-----------------------------------------------------------------------------
(* The phases of the interactive flow *)

AwaitingCallback == fpc = "waiting"

CodeReceived == fpc = "after_loop" /\ context.code # None /\ context.error = None

ErrorReceived == fpc = "after_loop" /\ context.error # None

Exchanging == fpc = "exchanging"

Done == fpc = "done" /\ fret.t = "returned"

RaisedAuthenticationError ==
    /\ fpc = "raised"
    /\ fret.t = "raised"
    /\ fret.exc = "TDAPIClientAuthenticationException"

\* one step of the flow from the wait loop on follows the claimed order
C11_PhaseStep ==
    (fpc' # fpc /\ fpc \in {"waiting", "after_loop", "exchanging", "raised", "done"})
    => \/ AwaitingCallback /\ (CodeReceived' \/ ErrorReceived')
       \/ CodeReceived /\ Exchanging' /\ flowPost = None /\ flowPost' # None
       \/ ErrorReceived /\ RaisedAuthenticationError' /\ flowPost' = None
       \/ Exchanging /\ Done'
       \/ Exchanging /\ RaisedAuthenticationError'

\* the authorization_code POST exists only with a code and without an error
C11_PostOnlyAfterCode ==
    /\ flowPost # None =>
         /\ context.code # None
         /\ context.error = None
         /\ flowPost.data.grant_type = "authorization_code"
         /\ flowPost.data.code = context.code
    /\ (context # None /\ context.error # None) => flowPost = None

\* a run that reached the wait loop ends returned or with the library's
\* authentication exception
C11_EndsDoneOrAuthenticationError ==
    (browserUrl # None /\ fpc \in {"raised", "done"})
    => Done \/ RaisedAuthenticationError

\* C11 (as claimed): from the wait loop on the phases occur only in the order
\* AwaitingCallback, CodeReceived or ErrorReceived, Exchanging (only from
\* CodeReceived), Done; the authorization_code POST is issued only after a
\* code was recorded and never when an error was recorded; the run ends by
\* returning the token response or by raising the authentication exception.
C11_PhasesInOrder ==
    /\ [][C11_PhaseStep]_vars
    /\ []C11_PostOnlyAfterCode
    /\ []C11_EndsDoneOrAuthenticationError

\* the order alone, with any exception allowed to end the exchange
C11_OrderStep ==
    (fpc' # fpc /\ fpc \in {"waiting", "after_loop", "exchanging", "raised", "done"})
    => \/ AwaitingCallback /\ (CodeReceived' \/ ErrorReceived')
       \/ CodeReceived /\ Exchanging' /\ flowPost = None /\ flowPost' # None
       \/ ErrorReceived /\ RaisedAuthenticationError' /\ flowPost' = None
       \/ Exchanging /\ Done'
       \/ Exchanging /\ fpc' = "raised" /\ fret'.t = "raised"

C11_OrderHolds == [][C11_OrderStep]_vars /\ []C11_PostOnlyAfterCode


-----------------------------------------------------------------------------
(* The callback result is written once *)

\* a step that changes the callback result after its creation
WritesResult == context # None /\ context' # context

C12_Step ==
    /\ WritesResult =>
         /\ context = AuthResponseContext
         /\ fpc = "waiting"
         /\ fpc' = "after_loop"
         /\ lastHandled' # lastHandled \/ handled' # handled
         /\ lastHandled'.status = 200
         /\ context' = DoGet(AuthResponseContext, lastHandled'.request.path,
                             lastHandled'.request.query).context
    /\ LoopTerminated =>
         /\ context' = context
         /\ lastHandled' = lastHandled
         /\ handled' = handled

C12_Recorded ==
    /\ fpc = "waiting" => context = AuthResponseContext
    /\ (LoopTerminated /\ lastHandled # None) =>
         /\ context = DoGet(AuthResponseContext, LastRequest.path,
                            LastRequest.query).context
         /\ context.code # None \/ context.error # None

\* C12: the callback result is written by exactly one request: the request
\* that records a code or an error finds the result empty, ends the wait
\* loop and is the last request the listener handles; after it the recorded
\* code, error and error_description never change.
C12_WrittenOnce == [][C12_Step]_vars /\ []C12_Recorded

\* the second request handled recorded a code, and the flow went on to the
\* exchange with that result
C12_Witness ==
    /\ handled = 2
    /\ fpc \in {"exchanging", "done"}
    /\ lastHandled.status = 200
    /\ context.code = PyList(<<<<"A", "+">>>>)


-----------------------------------------------------------------------------
(* The wait loop ends only by an accepted callback *)

\* a step in which the listener handled a request
HandlesRequest == lastHandled' # lastHandled \/ handled' # handled

\* C13 (as claimed): the wait loop has no timeout and no cutoff: a step taken
\* while waiting ends the loop if and only if it handles a callback on "/"
\* with a code or an error parameter; every other step, a malformed request
\* or the passing of time, leaves the flow waiting; and when such a callback
\* eventually arrives the loop terminates.
C13_TerminatesIffCallback ==
    /\ [][AwaitingCallback =>
            IF HandlesRequest /\ ~RawMalformed(lastHandled'.request)
              THEN LoopTerminated'
              ELSE AwaitingCallback']_vars
    /\ (AwaitingCallback ~> LoopTerminated)

\* C13 (amended): the same, with parameters of empty value counted as
\* absent: the loop ends if and only if a request on "/" with a non-empty
\* error, or with exactly one non-empty code, is handled.
C13_TerminatesIffAccepted ==
    /\ [][AwaitingCallback =>
            IF HandlesRequest /\ ~Malformed(lastHandled'.request)
              THEN LoopTerminated' /\ lastHandled'.request \in ValidCallbacks
              ELSE AwaitingCallback']_vars
    /\ (AwaitingCallback ~> LoopTerminated)

\* still waiting after MaxRequests rejected requests and with the clock at
\* its bound
C13_Witness ==
    /\ AwaitingCallback
    /\ handled = MaxRequests
    /\ now = MaxTime
    /\ lastHandled.status \in {400, 404}


-----------------------------------------------------------------------------
(* The browser is opened after the listener is ready *)

SetupFailed == fret.t = "raised" /\ fret.exc \in {"OSError", "SSLError"}

\* C14: the browser is opened on the authorization URL only after the key
\* and the certificate were generated and the listener was bound to
\* host:port and wrapped with TLS; a failed setup step ends the flow with the
\* browser never opened; no callback request is handled before the browser
\* was opened.
C14_BrowserAfterSetup ==
    /\ browserUrl # None =>
         /\ fargs # None
         /\ cert # None
         /\ httpd # None
         /\ httpd.address = <<fargs.server_listen_host, fargs.server_listen_port>>
         /\ httpd.tls
         /\ browserUrl = AuthorizationUrl(fargs.redirect_uri, fargs.client_id)
    /\ SetupFailed =>
         /\ fpc = "raised"
         /\ browserUrl = None
         /\ handled = 0
         /\ lastHandled = None
    /\ (handled > 0 \/ lastHandled # None) => browserUrl # None
    /\ fpc \in {"idle", "cert_not_before", "cert_not_after", "server", "tls",
                "browser"} => browserUrl = None /\ handled = 0

\* the browser was opened on a TLS listener and a callback was handled
C14_Witness ==
    /\ browserUrl # None
    /\ httpd # None
    /\ httpd.tls
    /\ cert # None
    /\ handled = 1
    /\ lastHandled # None


-----------------------------------------------------------------------------
(* The auth context holds a token together with its expiry *)

\* the context of caller c holds a token and an expiry
HasTokenAndExpiry(c) ==
    /\ {"access_token", "access_token_valid_until"} \subseteq DOMAIN ctx[c]
    /\ ctx[c].access_token \in AccessTokens
    /\ ctx[c].access_token_valid_until \in Int

\* a step assigns a context only on a successful exchange, with an expiry
\* later than the clock of that moment; a failed exchange leaves it alone
C15_Step ==
    /\ \A c \in Callers :
         ctx'[c] # ctx[c] =>
            /\ AuthReturnStep(c)
            /\ ret'.t = "returned"
            /\ ret'.data = ctx'[c]
            /\ PyInt(ret'.expires_in) > 0
            /\ ctx'[c].access_token_valid_until > now
            /\ now' = now
    /\ (ret' # ret /\ ret'.t = "raised") => ctx' = ctx

C15_Present ==
    /\ \A c \in Callers : ctx[c] # None => HasTokenAndExpiry(c)
    /\ AuthenticateSucceeded =>
         ret.data.access_token_valid_until > ret.returned_at

\* C15: in every reachable state, also after a failed exchange, a context
\* that holds an access_token holds an access_token_valid_until as well, and
\* that expiry was later than the clock when the token was assigned
\* (expires_in being positive).
C15_TokenHasExpiry == [][C15_Step]_vars /\ []C15_Present

\* a caller holding a context whose later exchange failed
C15_Witness ==
    /\ ret.t = "raised"
    /\ ret.op = "authenticate"
    /\ ctx[ret.caller] # None
    /\ ctx[ret.caller].access_token_valid_until > 0


-----------------------------------------------------------------------------
(* The token exchange takes no lock *)

\* an idle caller can start its exchange whatever the other callers do
C16_CanStart ==
    \A c \in Callers, client_id \in ClientIds, refresh_token \in RefreshTokens :
       (pc[c] = "idle" /\ tokenPosts < MaxPosts)
       => ENABLED AuthenticateCall(c, client_id, refresh_token)

\* every exchange started is a POST of its own to the token endpoint
C16_OwnPost ==
    \A c \in Callers :
       (pc[c] = "idle" /\ pc'[c] = "post")
       => /\ tokenPosts' = tokenPosts + 1
          /\ lastTokenPost' =
               [url |-> TokenUrl,
                data |-> GetAccessTokenData(call'[c].client_id,
                                            call'[c].refresh_token)]

\* C16: the token exchange has no locking: a caller's exchange is never held
\* back by another caller's exchange in flight, and each exchange performs
\* its own POST, so two callers asking for a token for the same client_id
\* and refresh_token with no token cached each post to the token endpoint.
C16_NoLocking == []C16_CanStart /\ [][C16_OwnPost]_vars

\* both callers are inside their POST for the same credentials, neither
\* holding a token
C16_Witness ==
    /\ pc["t1"] = "post"
    /\ pc["t2"] = "post"
    /\ call["t1"].client_id = call["t2"].client_id
    /\ call["t1"].refresh_token = call["t2"].refresh_token
    /\ ctx["t1"] = None
    /\ ctx["t2"] = None
    /\ tokenPosts = 2


-----------------------------------------------------------------------------
(* Code and error exclude each other *)

\* the wait loop ran and has terminated
LoopEnded == LoopTerminated /\ lastHandled # None

ExactlyOneOfCodeAndError ==
    /\ LoopEnded => (context.code # None) # (context.error # None)
    /\ (context # None /\ context.error = None) => context.error_description = None

\* C17 (as claimed): after the wait loop exactly one of code and error is
\* set; a callback on "/" carrying both an error and a code parameter records
\* the error only, leaves code unset and leads to the authentication
\* exception, never to a token exchange; error_description is never set
\* while error is unset.
C17_ErrorWinsOverCode ==
    /\ ExactlyOneOfCodeAndError
    /\ (/\ lastHandled # None
        /\ LastRequest.path = "/"
        /\ RawValuesOf(LastRequest.query, "error") # <<>>
        /\ RawValuesOf(LastRequest.query, "code") # <<>>)
       => /\ LoopTerminated
          /\ context.error
               = PyStr(UnquotePlus(RawValuesOf(LastRequest.query, "error")[1]))
          /\ context.code = None
          /\ flowPost = None
          /\ fpc # "after_loop" => RaisedAuthenticationError

\* C17 (amended): the same for a callback carrying both an error and a code
\* parameter of non-empty value; parameters of empty value count as absent.
C17_NonEmptyErrorWinsOverCode ==
    /\ ExactlyOneOfCodeAndError
    /\ (/\ lastHandled # None
        /\ LastRequest.path = "/"
        /\ SentValuesOf(LastRequest.query, "error") # <<>>
        /\ SentValuesOf(LastRequest.query, "code") # <<>>)
       => /\ LoopTerminated
          /\ lastHandled.status = 200
          /\ context.error
               = PyStr(UnquotePlus(SentValuesOf(LastRequest.query, "error")[1]))
          /\ context.code = None
          /\ flowPost = None
          /\ fpc # "after_loop" => RaisedAuthenticationError

\* the flow raised for a callback that carried a code and an error
C17_Witness ==
    /\ RaisedAuthenticationError
    /\ lastHandled # None
    /\ LastRequest.query = <<[k |-> "code", v |-> <<"A", "%", "2", "B">>],
                             [k |-> "error", v |-> <<"d", "e", "n", "y">>]>>
    /\ context.error = PyStr(<<"d", "e", "n", "y">>)
    /\ context.code = None
    /\ flowPost = None

====
